---- MODULE Spec2Model ----
(***************************************************************************)
(* Exam-seat assignment with a CSV checkpoint                              *)
(* (exam_room_app.data_processing).                                        *)
(*                                                                         *)
(* A text value (thaiID, program, exam_id, exam_room, a name) is a         *)
(* sequence of one-character strings, so that concatenation, prefix tests, *)
(* zero padding and the type inference of the CSV reader are computed on   *)
(* the characters.  The checkpoint file is the text that to_csv wrote;     *)
(* reading it back goes through pandas' per-column type inference          *)
(* (pd.read_csv) and the str()/int() conversions of the loading code.      *)
(***************************************************************************)
EXTENDS Integers, Sequences, FiniteSets, TLC

VARIABLES
    primary,     \* the checkpoint file <path>
    backup,      \* the sibling file <path>.bak
    plan,        \* which room plan (EXAM_ROOMS table) is configured
    runs,        \* number of assign_exam_details runs / saves so far
    ckpt,        \* checkpoint_data loaded by the last run
    out,         \* data frame returned by the last run
    prevPrimary, \* the primary file as it was before the last run or save
    saved,       \* whether the last run's save step completed
    raised,      \* whether an exception escaped the last operation
    issued,      \* <<program, exam_id, thaiID>> of every exam ID generated
    success,     \* the value ExamRoomApplication.run returned last
    inp,         \* the data the last ExamRoomApplication.run loaded
    lastOp       \* the last step: "init", "run", "plan", "load", "save", "app",
                 \* "crash", "recover", "key", "key_dp", "reload"

vars == <<primary, backup, plan, runs, ckpt, out,
          prevPrimary, saved, raised, issued, success, inp, lastOp>>

------------------------------------------------------------------------------
(* Bounds of the model *)

MaxRuns == 2
MaxBatch == 2

\* characters of the longest name given to the sort-key functions
MaxLen == 3

\* runs of one behaviour that starts without a checkpoint file and keeps its
\* room plan
MaxSeatRuns == 3

------------------------------------------------------------------------------
(* Text helpers *)

Digits == {"0", "1", "2", "3", "4", "5", "6", "7", "8", "9"}

DigitVal(c) ==
    CASE c = "0" -> 0 [] c = "1" -> 1 [] c = "2" -> 2 [] c = "3" -> 3
      [] c = "4" -> 4 [] c = "5" -> 5 [] c = "6" -> 6 [] c = "7" -> 7
      [] c = "8" -> 8 [] c = "9" -> 9

DigitChar(d) ==
    CASE d = 0 -> "0" [] d = 1 -> "1" [] d = 2 -> "2" [] d = 3 -> "3"
      [] d = 4 -> "4" [] d = 5 -> "5" [] d = 6 -> "6" [] d = 7 -> "7"
      [] d = 8 -> "8" [] d = 9 -> "9"

EmptyStr == << >>

\* the sequence f with every element evaluated once
AsSeq(f) == SubSeq(f, 1, Len(f))
NanStr == <<"n", "a", "n">>

StartsWith(s, p) ==
    /\ Len(p) <= Len(s)
    /\ \A i \in 1..Len(p) : s[i] = p[i]

\* s[n:] of Python (n is a 0-based start index)
DropFirst(s, n) == IF n >= Len(s) THEN << >> ELSE SubSeq(s, n + 1, Len(s))

IsIntText(s) == Len(s) > 0 /\ \A i \in 1..Len(s) : s[i] \in Digits

\* the only float literal to_csv produces here: digits followed by ".0"
IsFloatText(s) ==
    /\ Len(s) >= 3
    /\ s[Len(s)] = "0"
    /\ s[Len(s) - 1] = "."
    /\ IsIntText(SubSeq(s, 1, Len(s) - 2))

RECURSIVE ParseInt(_)
ParseInt(s) ==
    IF Len(s) = 0 THEN 0
    ELSE 10 * ParseInt(SubSeq(s, 1, Len(s) - 1)) + DigitVal(s[Len(s)])

RECURSIVE IntToStr(_)
IntToStr(n) ==
    IF n < 10 THEN <<DigitChar(n)>>
    ELSE IntToStr(n \div 10) \o <<DigitChar(n % 10)>>

RECURSIVE zfill(_, _)
zfill(s, width) == IF Len(s) >= width THEN s ELSE zfill(<<"0">> \o s, width)

------------------------------------------------------------------------------
(* pandas: pd.read_csv column type inference, str() of a cell and           *)
(* Series.astype(str)                                                       *)

\* cells read_csv takes for a missing value (default na_values)
IsNaText(s) == s = EmptyStr \/ s = NanStr

\* dtype read_csv infers for a column holding the texts `cells`
InferDtype(cells) ==
    LET present == {c \in cells : ~IsNaText(c)} IN
    IF cells = {} THEN "object"
    ELSE IF present = cells /\ \A c \in present : IsIntText(c) THEN "int64"
    ELSE IF \A c \in present : IsIntText(c) \/ IsFloatText(c) THEN "float64"
    ELSE "object"

\* str(value) of a cell of a column of dtype `dtype` whose text is `s`
\* (the same text Series.astype(str) gives)
CellStr(dtype, s) ==
    IF dtype = "int64" THEN IntToStr(ParseInt(s))
    ELSE IF IsNaText(s) THEN NanStr
    ELSE IF dtype = "float64"
         THEN IntToStr(ParseInt(IF IsFloatText(s)
                                THEN SubSeq(s, 1, Len(s) - 2) ELSE s))
              \o <<".", "0">>
    ELSE s

ColumnCells(rows, col) == {rows[i][col] : i \in 1..Len(rows)}

\* the data frame pd.read_csv returns for the text rows, every text column
\* rendered through str(); exam_no is a whole number in the file
ReadFrame(rows) ==
    LET dtThaiID == InferDtype(ColumnCells(rows, "thaiID"))
        dtProgram == InferDtype(ColumnCells(rows, "program"))
        dtExamId == InferDtype(ColumnCells(rows, "exam_id"))
        dtExamRoom == InferDtype(ColumnCells(rows, "exam_room"))
    IN AsSeq([i \in 1..Len(rows) |->
        [thaiID    |-> CellStr(dtThaiID, rows[i].thaiID),
         program   |-> CellStr(dtProgram, rows[i].program),
         exam_id   |-> CellStr(dtExamId, rows[i].exam_id),
         exam_room |-> CellStr(dtExamRoom, rows[i].exam_room),
         exam_no   |-> rows[i].exam_no]])

------------------------------------------------------------------------------
(* Static configuration (ExamRoomConfig, replaced by small tables the way   *)
(* the tests replace exam_rooms / exam_id_prefix)                           *)

ProgA == <<"A">>
ProgB == <<"B">>

Room721 == <<"7", "2", "1">>
RoomHall == <<"H", "a", "l", "l">>

EXAM_ID_PREFIX == (ProgA :> <<"1", "1">>) @@ (ProgB :> <<"1", "2">>)

\* plan 1: both programs configured and sharing room 721;
\* plan 2: the plan of A changed, and B has no room plan.
EXAM_ROOMS(p) ==
    IF p = 1
    THEN (ProgA :> << <<Room721, 1>>, <<RoomHall, 1>> >>)
         @@ (ProgB :> << <<Room721, 1>> >>)
    ELSE (ProgA :> << <<Room721, 2>> >>)

Plans == {1, 2}

------------------------------------------------------------------------------
(* The checkpoint files.  kind is what a reader finds at the path:          *)
(*   "absent"       no file                                                 *)
(*   "empty"        a file pd.read_csv cannot parse (zero bytes, as left by *)
(*                  tempfile.NamedTemporaryFile, or a truncated write)      *)
(*   "missingcols"  a parsable table without the thaiID column              *)
(*   "badrows"      all columns present, an exam_no cell that is no number  *)
(*   "valid"        the rows to_csv wrote                                   *)

FileKinds == {"absent", "empty", "missingcols", "badrows", "valid"}

AbsentFile == [kind |-> "absent", rows |-> << >>]
ValidFile(rows) == [kind |-> "valid", rows |-> rows]
DamagedFile(kind) == [kind |-> kind, rows |-> << >>]

EmptyDict == [k \in {} |-> 0]

Max(S) == CHOOSE x \in S : \A y \in S : y <= x
Min2(a, b) == IF a <= b THEN a ELSE b

------------------------------------------------------------------------------
(* CheckpointManager: loading *)

\* os.path.exists(checkpoint_file)
_is_valid_checkpoint_file(f) == f.kind # "absent"

\* pd.read_csv(path): exc when the parser raises
pd_read_csv(f) ==
    [exc   |-> f.kind = "empty",
     frame |-> IF f.kind = "valid" THEN ReadFrame(f.rows) ELSE << >>]

\* all REQUIRED_COLUMNS are among the columns of the table
_validate_checkpoint_columns(f) == f.kind # "missingcols"

\* the dictionary built row by row; a later row of the same key overwrites
\* an earlier one; int(row['exam_no']) raises on a cell that is no number
_process_checkpoint_data(f, frame) ==
    LET keys == {<<frame[i].thaiID, frame[i].program>> : i \in 1..Len(frame)}
        last(k) == Max({i \in 1..Len(frame) :
                          <<frame[i].thaiID, frame[i].program>> = k})
    IN [exc  |-> f.kind = "badrows",
        data |-> IF f.kind = "badrows" THEN EmptyDict
                 ELSE [k \in keys |->
                         [exam_id   |-> frame[last(k)].exam_id,
                          exam_room |-> frame[last(k)].exam_room,
                          exam_no   |-> frame[last(k)].exam_no]]]

\* the body of a try block that reads, validates and converts one file
ReadValidateProcess(f) ==
    LET rd == pd_read_csv(f) IN
    IF rd.exc THEN [exc |-> TRUE, data |-> EmptyDict]
    ELSE IF ~_validate_checkpoint_columns(f)
         THEN [exc |-> FALSE, data |-> EmptyDict]
    ELSE _process_checkpoint_data(f, rd.frame)

_load_from_backup(b) ==
    IF b.kind = "absent" THEN [exc |-> FALSE, data |-> EmptyDict]
    ELSE LET body == ReadValidateProcess(b) IN
         IF body.exc THEN [exc |-> FALSE, data |-> EmptyDict]  \* except: log
         ELSE body

\* a load whose except clause is missing: the reader's exception escapes
load_checkpoint_no_handler(p, b) ==
    IF ~_is_valid_checkpoint_file(p) THEN [exc |-> FALSE, data |-> EmptyDict]
    ELSE ReadValidateProcess(p)

\* a load that also consults the backup when columns are missing
load_checkpoint_backup_on_columns(p, b) ==
    IF ~_is_valid_checkpoint_file(p) THEN [exc |-> FALSE, data |-> EmptyDict]
    ELSE IF p.kind = "missingcols" THEN _load_from_backup(b)
    ELSE LET body == ReadValidateProcess(p) IN
         IF body.exc THEN _load_from_backup(b) ELSE body

load_checkpoint(p, b) ==
    IF ~_is_valid_checkpoint_file(p) THEN [exc |-> FALSE, data |-> EmptyDict]
    ELSE LET body == ReadValidateProcess(p) IN
         IF body.exc THEN _load_from_backup(b)   \* except Exception
         ELSE body

------------------------------------------------------------------------------
(* CheckpointManager: saving *)

\* the 'nan' text of the string columns becomes '' (astype(str) itself is
\* part of ReadFrame for a frame read from a file, and the identity on the
\* str values of the frame being saved)
_normalize_dataframe_types(frame) ==
    LET fix(s) == IF s = NanStr THEN EmptyStr ELSE s IN
    AsSeq([i \in 1..Len(frame) |->
        [thaiID    |-> fix(frame[i].thaiID),
         program   |-> fix(frame[i].program),
         exam_id   |-> fix(frame[i].exam_id),
         exam_room |-> fix(frame[i].exam_room),
         exam_no   |-> frame[i].exam_no]])

\* a key that keeps the two components apart
PairKey(row) == <<row.thaiID, row.program>>

_create_composite_key(row) == row.thaiID \o <<"_">> \o row.program

\* shutil.copy2(checkpoint_file, checkpoint_backup); a copy that raises is
\* logged and leaves the .bak file as it was (copy_ok = FALSE)
_create_backup(p, b, copy_ok) == IF copy_ok THEN p ELSE b

\* existing rows whose key is in the batch are dropped, the batch is
\* appended, the old file is copied to .bak, the union is written
\* an update that gives up when the copy to .bak failed
_update_aborting_without_backup(current_data, p, b, copy_ok) ==
    IF copy_ok
    THEN [ok |-> TRUE,
          primary |-> ValidFile(
              SelectSeq(_normalize_dataframe_types(ReadFrame(p.rows)),
                        LAMBDA r : _create_composite_key(r) \notin
                            {_create_composite_key(x) : x \in
                               {_normalize_dataframe_types(current_data)[i] :
                                  i \in 1..Len(current_data)}})
              \o _normalize_dataframe_types(current_data)),
          backup |-> p]
    ELSE [ok |-> FALSE, primary |-> p, backup |-> b]

_update_existing_checkpoint(current_data, p, b, copy_ok) ==
    LET existing == _normalize_dataframe_types(ReadFrame(p.rows))
        current  == _normalize_dataframe_types(current_data)
        existing_keys == {_create_composite_key(current[i]) :
                            i \in 1..Len(current)}
        kept == SelectSeq(existing,
                    LAMBDA r : _create_composite_key(r) \notin existing_keys)
    IN [ok |-> TRUE, primary |-> ValidFile(kept \o current),
        backup |-> _create_backup(p, b, copy_ok)]

_create_new_checkpoint(data, p, b) ==
    [ok |-> TRUE, primary |-> ValidFile(_normalize_dataframe_types(data)),
     backup |-> b]

\* pd.read_csv raises on "empty"; the key columns are missing in
\* "missingcols" (KeyError); astype(int) raises on "badrows": each is caught
\* by save_checkpoint, which returns False and leaves both files as they are
save_checkpoint(df, p, b, copy_ok) ==
    IF p.kind = "absent" THEN _create_new_checkpoint(df, p, b)
    ELSE IF p.kind = "valid"
         THEN _update_existing_checkpoint(df, p, b, copy_ok)
    ELSE [ok |-> FALSE, primary |-> p, backup |-> b]

------------------------------------------------------------------------------
(* NameProcessor.get_thai_sort_key *)

\* the five leading vowels  เ แ โ ใ ไ
thai_leading_vowels == {"sara_e", "sara_ae", "sara_o", "sara_ai_maimuan",
                        "sara_ai_maimalai"}

\* code points of the characters names are made of (ก ม ส and the vowels)
Ord(c) ==
    CASE c = "ko_kai" -> 3585 [] c = "mo_ma" -> 3617 [] c = "so_sua" -> 3626
      [] c = "sara_e" -> 3648 [] c = "sara_ae" -> 3649 [] c = "sara_o" -> 3650
      [] c = "sara_ai_maimuan" -> 3651 [] c = "sara_ai_maimalai" -> 3652

\* a key that keeps only the two swapped characters
get_thai_sort_key_two_chars(name) ==
    IF Len(name) < 2 THEN name
    ELSE IF name[1] \in thai_leading_vowels THEN <<name[2], name[1]>>
    ELSE name

get_thai_sort_key(name) ==
    IF Len(name) < 2 THEN name
    ELSE IF name[1] \in thai_leading_vowels
         THEN <<name[2], name[1]>> \o DropFirst(name, 2)
    ELSE name

\* DataProcessor._get_thai_sort_key, the same function kept in DataProcessor
_get_thai_sort_key(name) ==
    IF Len(name) = 0 \/ Len(name) < 2 THEN name
    ELSE IF name[1] \in thai_leading_vowels
         THEN IF Len(name) > 2
              THEN <<name[2]>> \o <<name[1]>> \o DropFirst(name, 2)
              ELSE <<name[2]>> \o <<name[1]>>
    ELSE name

\* Python's str comparison: by code point, a proper prefix is smaller
RECURSIVE StrLess(_, _)
StrLess(s, t) ==
    IF Len(t) = 0 THEN FALSE
    ELSE IF Len(s) = 0 THEN TRUE
    ELSE IF Ord(s[1]) # Ord(t[1]) THEN Ord(s[1]) < Ord(t[1])
    ELSE StrLess(Tail(s), Tail(t))

SortKey(r) == <<get_thai_sort_key(r.firstname), get_thai_sort_key(r.lastname)>>

KeyLess(a, b) ==
    \/ StrLess(a[1], b[1])
    \/ a[1] = b[1] /\ StrLess(a[2], b[2])

\* df.sort_values(by=[firstname_sort_key, lastname_sort_key]): rows of equal
\* keys keep their input order
\* an insertion that drops a row whose keys equal those of a row before it
RECURSIVE InsertDroppingTies(_, _)
InsertDroppingTies(sorted, r) ==
    IF sorted = << >> THEN <<r>>
    ELSE IF KeyLess(SortKey(r), SortKey(sorted[Len(sorted)]))
         THEN InsertDroppingTies(SubSeq(sorted, 1, Len(sorted) - 1), r)
              \o <<sorted[Len(sorted)]>>
    ELSE IF SortKey(r) = SortKey(sorted[Len(sorted)]) THEN sorted
    ELSE sorted \o <<r>>

RECURSIVE InsertStable(_, _)
InsertStable(sorted, r) ==
    IF sorted = << >> THEN <<r>>
    ELSE IF KeyLess(SortKey(r), SortKey(sorted[Len(sorted)]))
         THEN InsertStable(SubSeq(sorted, 1, Len(sorted) - 1), r)
              \o <<sorted[Len(sorted)]>>
    ELSE sorted \o <<r>>

\* a frame left in its input order
sort_values_input_order(df) == df

RECURSIVE sort_values(_)
sort_values(df) ==
    IF df = << >> THEN << >>
    ELSE InsertStable(sort_values(SubSeq(df, 1, Len(df) - 1)), df[Len(df)])

------------------------------------------------------------------------------
(* ExamAssigner *)

DictKey(r) == <<r.thaiID, r.program>>

\* the numbers int(exam_id[len(prefix):]) of the checkpointed exam IDs of
\* a program; an ID without the prefix or with an unparsable rest is skipped
ExamIdNumbers(checkpoint_data, program) ==
    IF program \notin DOMAIN EXAM_ID_PREFIX THEN {}
    ELSE LET prefix == EXAM_ID_PREFIX[program] IN
         {ParseInt(DropFirst(checkpoint_data[k].exam_id, Len(prefix))) :
            k \in {k \in DOMAIN checkpoint_data :
                     /\ k[2] = program
                     /\ StartsWith(checkpoint_data[k].exam_id, prefix)
                     /\ IsIntText(DropFirst(checkpoint_data[k].exam_id,
                                            Len(prefix)))}}

\* numbering that starts again at 1 whatever the checkpoint holds
_highest_ignoring_checkpoint(checkpoint_data, program) == 0

\* program_highest_exam_id.get(program, 0)
_get_highest_exam_id_by_program(checkpoint_data, program) ==
    Max(ExamIdNumbers(checkpoint_data, program) \cup {0})

\* an occupancy that counts one seat too many
_room_occupancy_off_by_one(checkpoint_data, program, room) ==
    Max({checkpoint_data[k].exam_no :
           k \in {k \in DOMAIN checkpoint_data :
                    /\ k[2] = program
                    /\ checkpoint_data[k].exam_room # EmptyStr
                    /\ checkpoint_data[k].exam_room = room}} \cup {0}) + 1

\* max(room_occupancy[room]) of the program, 0 for a room without entries
_get_room_occupancy(checkpoint_data, program, room) ==
    Max({checkpoint_data[k].exam_no :
           k \in {k \in DOMAIN checkpoint_data :
                    /\ k[2] = program
                    /\ checkpoint_data[k].exam_room # EmptyStr
                    /\ checkpoint_data[k].exam_room = room}} \cup {0})

\* an exam ID whose running number is not padded
ExamIdUnpadded(program, running_number) ==
    (IF program \in DOMAIN EXAM_ID_PREFIX
     THEN EXAM_ID_PREFIX[program] ELSE EmptyStr)
    \o IntToStr(running_number)

\* prefix + str(running_number).zfill(3)
ExamId(program, running_number) ==
    (IF program \in DOMAIN EXAM_ID_PREFIX
     THEN EXAM_ID_PREFIX[program] ELSE EmptyStr)
    \o zfill(IntToStr(running_number), 3)

\* rows of the sorted frame after the running numbers, the exam IDs, the
\* column defaults and the checkpointed details have been set
WithExamIds(sorted, checkpoint_data) ==
    LET isNew(i) == DictKey(sorted[i]) \notin DOMAIN checkpoint_data
        rank(i) == Cardinality({j \in 1..i :
                       sorted[j].program = sorted[i].program /\ isNew(j)})
    IN AsSeq([i \in 1..Len(sorted) |->
          IF isNew(i)
          THEN [thaiID    |-> sorted[i].thaiID,
                program   |-> sorted[i].program,
                exam_id   |-> ExamId(sorted[i].program,
                                _get_highest_exam_id_by_program(
                                    checkpoint_data, sorted[i].program)
                                + rank(i)),
                exam_room |-> EmptyStr,
                exam_no   |-> 0]
          ELSE [thaiID    |-> sorted[i].thaiID,
                program   |-> sorted[i].program,
                exam_id   |-> checkpoint_data[DictKey(sorted[i])].exam_id,
                exam_room |-> checkpoint_data[DictKey(sorted[i])].exam_room,
                exam_no   |-> checkpoint_data[DictKey(sorted[i])].exam_no]])

\* a room walk whose seat numbers restart at 1 in every room
RECURSIVE WalkRoomsFromOne(_, _, _, _, _)
WalkRoomsFromOne(program_rooms, j, current_student, num_students, highest) ==
    IF j > Len(program_rooms) \/ current_student >= num_students THEN << >>
    ELSE LET students_in_room == Min2(program_rooms[j][2],
                                      num_students - current_student)
         IN [k \in 1..students_in_room |-> <<program_rooms[j][1], k>>]
            \o WalkRoomsFromOne(program_rooms, j + 1,
                                current_student + students_in_room,
                                num_students, highest)

\* a walk that seats everybody in the last room of the plan
WalkRoomsLastRoomOnly(program_rooms, j, current_student, num_students, highest) ==
    LET room_name == program_rooms[Len(program_rooms)][1]
        left == program_rooms[Len(program_rooms)][2] - highest[room_name]
    IN AsSeq([k \in 1..Min2(Max({left, 0}), num_students - current_student)
                |-> <<room_name, highest[room_name] + k>>])

\* the room and seat lists the walk over the program's plan builds, as
\* pairs <<room, seat>>
RECURSIVE WalkRooms(_, _, _, _, _)
WalkRooms(program_rooms, j, current_student, num_students, highest) ==
    IF j > Len(program_rooms) \/ current_student >= num_students THEN << >>
    ELSE LET room_name == program_rooms[j][1]
             room_capacity == program_rooms[j][2]
             highest_exam_no == highest[room_name]
             remaining_capacity == room_capacity - highest_exam_no
             students_in_room == Min2(remaining_capacity,
                                      num_students - current_student)
         IN IF remaining_capacity <= 0
            THEN WalkRooms(program_rooms, j + 1, current_student,
                           num_students, highest)
            ELSE [k \in 1..students_in_room |->
                     <<room_name, highest_exam_no + k>>]
                 \o WalkRooms(program_rooms, j + 1,
                              current_student + students_in_room,
                              num_students, highest)

\* df.loc[unassigned_indices, "exam_room"] = room_assignments raises
\* ValueError when the two lengths differ; the program's except clause logs
\* it and the rows of the program stay as they were
_assign_rooms_by_program(frame, checkpoint_data, p) ==
    LET unassigned(program) ==
            {i \in 1..Len(frame) : /\ frame[i].program = program
                                   /\ frame[i].exam_room = EmptyStr}
        walk(program) ==
            LET program_rooms == EXAM_ROOMS(p)[program]
                highest == [r \in {program_rooms[j][1] :
                                     j \in 1..Len(program_rooms)} |->
                              _get_room_occupancy(checkpoint_data, program, r)]
            IN WalkRooms(program_rooms, 1, 0,
                         Cardinality(unassigned(program)), highest)
        pos(i) == Cardinality({j \in unassigned(frame[i].program) : j <= i})
    IN AsSeq([i \in 1..Len(frame) |->
          LET program == frame[i].program IN
          IF /\ i \in unassigned(program)
             /\ program \in DOMAIN EXAM_ROOMS(p)
             /\ Len(walk(program)) = Cardinality(unassigned(program))
          THEN [frame[i] EXCEPT !.exam_room = walk(program)[pos(i)][1],
                                !.exam_no = walk(program)[pos(i)][2]]
          ELSE frame[i]])

\* ExamAssigner.assign_exam_details(df, checkpoint_data)
assign_exam_details(df, checkpoint_data, p) ==
    _assign_rooms_by_program(
        WithExamIds(sort_values(df), checkpoint_data), checkpoint_data, p)

------------------------------------------------------------------------------
(* DataProcessor.assign_exam_details(df, checkpoint_file): load, assign,    *)
(* save in one call                                                         *)

\* the save step of DataProcessor.assign_exam_details: the same merge as
\* CheckpointManager's for an existing file; a new file gets the frame as it
\* is.  An exception of the step is logged and the frame is still returned.
SaveToCheckpoint(df, p, b, copy_ok) ==
    IF p.kind = "absent" THEN [ok |-> TRUE, primary |-> ValidFile(df),
                               backup |-> b]
    ELSE IF p.kind = "valid"
         THEN _update_existing_checkpoint(df, p, b, copy_ok)
    ELSE [ok |-> FALSE, primary |-> p, backup |-> b]

\* the applicants of the model: three of program A (the second and third
\* with equal sort keys: เม and มเ) and one of program B who has the thaiID
\* of the first
Pool ==
    {[thaiID |-> <<"1">>, program |-> ProgA,
      firstname |-> <<"ko_kai">>, lastname |-> <<"so_sua">>],
     [thaiID |-> <<"2">>, program |-> ProgA,
      firstname |-> <<"sara_e", "mo_ma">>, lastname |-> <<"so_sua">>],
     [thaiID |-> <<"3">>, program |-> ProgA,
      firstname |-> <<"mo_ma", "sara_e">>, lastname |-> <<"so_sua">>],
     [thaiID |-> <<"1">>, program |-> ProgB,
      firstname |-> <<"so_sua">>, lastname |-> <<"ko_kai">>]}

\* input frames: up to MaxBatch distinct applicants in any order
Inputs ==
    UNION {{s \in [1..n -> Pool] : \A i, j \in 1..n : i # j => s[i] # s[j]} :
             n \in 1..MaxBatch}

NewRows(frame, checkpoint_data) ==
    {i \in 1..Len(frame) : DictKey(frame[i]) \notin DOMAIN checkpoint_data}

Init ==
    /\ primary \in {AbsentFile, DamagedFile("empty")}
    /\ backup = AbsentFile
    /\ plan = 1
    /\ runs = 0
    /\ ckpt = EmptyDict
    /\ out = << >>
    /\ prevPrimary = primary
    /\ saved = FALSE
    /\ raised = FALSE
    /\ issued = {}
    /\ success = TRUE
    /\ inp = << >>
    /\ lastOp = "init"

Run(df, copy_ok) ==
    /\ runs < MaxRuns
    /\ LET loaded == load_checkpoint(primary, backup).data
           frame == assign_exam_details(df, loaded, plan)
           sv == SaveToCheckpoint(frame, primary, backup, copy_ok)
       IN /\ primary' = sv.primary
          /\ backup' = sv.backup
          /\ saved' = sv.ok
          /\ ckpt' = loaded
          /\ out' = frame
          /\ issued' = issued \cup
                 {<<frame[i].program, frame[i].exam_id, frame[i].thaiID>> :
                    i \in NewRows(frame, loaded)}
    /\ prevPrimary' = primary
    /\ runs' = runs + 1
    /\ lastOp' = "run"
    /\ raised' = load_checkpoint(primary, backup).exc
    /\ UNCHANGED <<plan, success, inp>>

\* the configured room plan is replaced between two runs
ChangePlan ==
    /\ plan = 1
    /\ plan' = 2
    /\ lastOp' = "plan"
    /\ UNCHANGED <<primary, backup, runs, ckpt, out,
                   prevPrimary, saved, raised, issued, success, inp>>

\* the runs of Spec find the .bak file writable; SpecApp and SpecMerge also
\* take the copy that fails
Next ==
    \/ \E df \in Inputs : Run(df, TRUE)
    \/ ChangePlan

Spec == Init /\ [][Next]_vars

------------------------------------------------------------------------------
(* CheckpointManager.load_checkpoint on every state of the two files *)

StoreRow(id, program, exam_id, room, no) ==
    [thaiID |-> id, program |-> program, exam_id |-> exam_id,
     exam_room |-> room, exam_no |-> no]

\* rows a run can have written
SampleRows ==
    {StoreRow(<<"1">>, ProgA, <<"1", "1", "0", "0", "1">>, Room721, 1),
     StoreRow(<<"2">>, ProgA, <<"1", "1", "0", "0", "2">>, RoomHall, 1),
     StoreRow(<<"1">>, ProgB, <<"1", "2", "0", "0", "1">>, EmptyStr, 0)}

SampleStores ==
    UNION {{s \in [1..n -> SampleRows] :
              \A i, j \in 1..n : i # j => s[i] # s[j]} : n \in 0..MaxBatch}

FileStates ==
    {AbsentFile, DamagedFile("empty"), DamagedFile("missingcols"),
     DamagedFile("badrows")} \cup {ValidFile(s) : s \in SampleStores}

InitLoad ==
    /\ primary \in FileStates
    /\ backup \in FileStates
    /\ plan = 1
    /\ runs = 0
    /\ ckpt = EmptyDict
    /\ out = << >>
    /\ prevPrimary = primary
    /\ saved = FALSE
    /\ raised = FALSE
    /\ issued = {}
    /\ success = TRUE
    /\ inp = << >>
    /\ lastOp = "init"

Load ==
    /\ lastOp = "init"
    /\ ckpt' = load_checkpoint(primary, backup).data
    /\ raised' = load_checkpoint(primary, backup).exc
    /\ lastOp' = "load"
    /\ UNCHANGED <<primary, backup, plan, runs, out, prevPrimary, saved,
                   issued, success, inp>>

NextLoad == Load

SpecLoad == InitLoad /\ [][NextLoad]_vars

------------------------------------------------------------------------------
(* CheckpointManager.save_checkpoint on batches whose keys contain "_" *)

ProgAB == <<"a", "_", "B">>

MergeKeys == {<< <<"1">>, ProgAB >>, << <<"1", "_", "a">>, ProgB >>,
              << <<"2">>, ProgB >>}

MergeRows ==
    {StoreRow(k[1], k[2], id, RoomHall, no) :
       k \in MergeKeys,
       id \in {<<"1", "2", "0", "0", "1">>},
       no \in {1, 2}}

\* the frames handed to save_checkpoint; a frame may hold a key twice
Batches == UNION {[1..n -> MergeRows] : n \in 1..MaxBatch}

InitMerge ==
    /\ primary = AbsentFile
    /\ backup = AbsentFile
    /\ plan = 1
    /\ runs = 0
    /\ ckpt = EmptyDict
    /\ out = << >>
    /\ prevPrimary = primary
    /\ saved = FALSE
    /\ raised = FALSE
    /\ issued = {}
    /\ success = TRUE
    /\ inp = << >>
    /\ lastOp = "init"

SaveBatch(batch, copy_ok) ==
    /\ runs < MaxRuns
    /\ LET sv == save_checkpoint(batch, primary, backup, copy_ok)
       IN /\ primary' = sv.primary
          /\ backup' = sv.backup
          /\ saved' = sv.ok
    /\ out' = batch
    /\ prevPrimary' = primary
    /\ runs' = runs + 1
    /\ lastOp' = "save"
    /\ UNCHANGED <<plan, ckpt, raised, issued, success, inp>>

NextMerge ==
    \E batch \in Batches : \E copy_ok \in BOOLEAN : SaveBatch(batch, copy_ok)

SpecMerge == InitMerge /\ [][NextMerge]_vars

------------------------------------------------------------------------------
(* ExamRoomApplication.run: one pass over the programs of EXAM_ID_PREFIX,   *)
(* each program's rows going through process_data (and, with Firebase exam  *)
(* data enabled, through process_data_firebase as well)                     *)

\* a program that has neither an exam-ID prefix nor a room plan
ProgC == <<"C">>

\* list(ExamRoomConfig.EXAM_ID_PREFIX.keys())
program_ids == <<ProgA, ProgB>>

AppPool ==
    {r \in Pool : r.thaiID = <<"1">>}
    \cup {[thaiID |-> <<"4">>, program |-> ProgC,
           firstname |-> <<"mo_ma">>, lastname |-> <<"ko_kai">>]}

AppInputs ==
    UNION {{s \in [1..n -> AppPool] :
              \A i, j \in 1..n : i # j => s[i] # s[j]} : n \in 1..MaxBatch}

\* DataProcessor.assign_exam_details(df, checkpoint_file) on the files of st
process_data(st, df, p) ==
    LET loaded == load_checkpoint(st.primary, st.backup).data
        frame == assign_exam_details(df, loaded, p)
        sv == SaveToCheckpoint(frame, st.primary, st.backup, st.copy_ok)
    IN [primary |-> sv.primary,
        backup  |-> sv.backup,
        copy_ok |-> st.copy_ok,
        frames  |-> st.frames,
        frame   |-> frame,
        saved   |-> st.saved /\ sv.ok,
        ckpt    |-> loaded,
        issued  |-> st.issued \cup
                    {<<frame[i].program, frame[i].exam_id, frame[i].thaiID>> :
                       i \in NewRows(frame, loaded)}]

\* one pass of the loop body for a program that has rows: process_data,
\* whose frame goes to the Excel and PDF writers, then process_data_firebase
ProcessProgram(st, program_data, use_firebase_exam, p) ==
    CHOOSE after \in
        {IF use_firebase_exam THEN process_data(kept, program_data, p)
         ELSE kept :
           kept \in {[first EXCEPT !.frames = st.frames \o first.frame] :
                       first \in {process_data(st, program_data, p)}}} : TRUE

\* the loop "for program in self.program_ids" of run
RECURSIVE AppLoop(_, _, _, _, _)
AppLoop(data, programs, st, use_firebase_exam, p) ==
    IF programs = << >> THEN st
    ELSE LET program_data == SelectSeq(data,
                                 LAMBDA r : r.program = programs[1])
             rest == SubSeq(programs, 2, Len(programs))
         IN IF program_data = << >>
            THEN AppLoop(data, rest, st, use_firebase_exam, p)
            ELSE CHOOSE final \in
                    {AppLoop(data, rest, next, use_firebase_exam, p) :
                       next \in {ProcessProgram(st, program_data,
                                                use_firebase_exam, p)}} : TRUE

\* outputs_ok: whether the Excel, PDF and Firebase writers all returned True
AppRun(data, outputs_ok, use_firebase_exam, copy_ok) ==
    /\ runs < MaxRuns
    /\ \E st \in {AppLoop(data, program_ids,
                          [primary |-> primary, backup |-> backup,
                           copy_ok |-> copy_ok, frames |-> << >>, frame |-> << >>, saved |-> TRUE,
                           ckpt |-> ckpt, issued |-> issued],
                          use_firebase_exam, plan)} :
          /\ primary' = st.primary
          /\ backup' = st.backup
          /\ out' = st.frames
          /\ saved' = st.saved
          /\ ckpt' = st.ckpt
          /\ issued' = st.issued
    /\ success' = ((\E i \in 1..Len(data) : \E j \in 1..Len(program_ids) :
                       data[i].program = program_ids[j]) => outputs_ok)
    /\ inp' = data
    /\ prevPrimary' = primary
    /\ runs' = runs + 1
    /\ raised' = FALSE
    /\ lastOp' = "app"
    /\ UNCHANGED plan

NextApp ==
    \/ \E data \in AppInputs :
          \E outputs_ok, use_firebase_exam, copy_ok \in BOOLEAN :
              AppRun(data, outputs_ok, use_firebase_exam, copy_ok)
    \/ ChangePlan

SpecApp == Init /\ [][NextApp]_vars

------------------------------------------------------------------------------
(* A save over an existing file that is cut short, followed by a load       *)

\* what a file holds whose writing was cut short: nothing, the header and
\* the first n rows, or a last row that lacks cells (its exam_no is read as
\* NaN and int() raises)
PartialFiles(f) ==
    {DamagedFile("empty"), DamagedFile("badrows")}
    \cup {ValidFile(SubSeq(f.rows, 1, n)) : n \in 0..Len(f.rows)}

\* the two files after _update_existing_checkpoint stopped before the copy,
\* within the copy, between the copy and to_csv, or within to_csv
InterruptedOutcomes(batch, p, b) ==
    {[primary |-> p, backup |-> b]}
    \cup {[primary |-> p, backup |-> part] : part \in PartialFiles(p)}
    \cup {[primary |-> p, backup |-> _create_backup(p, b, TRUE)]}
    \cup {[primary |-> part, backup |-> _create_backup(p, b, TRUE)] :
            part \in PartialFiles(
                       _update_existing_checkpoint(batch, p, b, TRUE).primary)}

CrashBatches == {s \in SampleStores : Len(s) >= 1}

InitCrash ==
    /\ primary \in {ValidFile(s) : s \in CrashBatches}
    /\ backup = AbsentFile
    /\ plan = 1
    /\ runs = 0
    /\ ckpt = EmptyDict
    /\ out = << >>
    /\ prevPrimary = primary
    /\ saved = FALSE
    /\ raised = FALSE
    /\ issued = {}
    /\ success = TRUE
    /\ inp = << >>
    /\ lastOp = "init"

CrashSave(batch) ==
    /\ lastOp = "init"
    /\ \E o \in InterruptedOutcomes(batch, primary, backup) :
          /\ primary' = o.primary
          /\ backup' = o.backup
    /\ out' = batch
    /\ prevPrimary' = primary
    /\ saved' = FALSE
    /\ lastOp' = "crash"
    /\ UNCHANGED <<plan, runs, ckpt, raised, issued, success, inp>>

Recover ==
    /\ lastOp = "crash"
    /\ ckpt' = load_checkpoint(primary, backup).data
    /\ raised' = load_checkpoint(primary, backup).exc
    /\ lastOp' = "recover"
    /\ UNCHANGED <<primary, backup, plan, runs, out, prevPrimary, saved,
                   issued, success, inp>>

NextCrash ==
    \/ \E batch \in CrashBatches : CrashSave(batch)
    \/ Recover

SpecCrash == InitCrash /\ [][NextCrash]_vars

------------------------------------------------------------------------------
(* The sort-key functions on names of up to MaxLen characters               *)

Alphabet == {"ko_kai", "mo_ma", "so_sua"} \cup thai_leading_vowels

Names == UNION {[1..n -> Alphabet] : n \in 0..MaxLen}

\* inp is the name, out the key returned for it
InitKey ==
    /\ inp \in Names
    /\ out = << >>
    /\ primary = AbsentFile
    /\ backup = AbsentFile
    /\ plan = 1
    /\ runs = 0
    /\ ckpt = EmptyDict
    /\ prevPrimary = primary
    /\ saved = FALSE
    /\ raised = FALSE
    /\ issued = {}
    /\ success = TRUE
    /\ lastOp = "init"

KeyOfNameProcessor ==
    /\ lastOp = "init"
    /\ out' = get_thai_sort_key(inp)
    /\ lastOp' = "key"
    /\ UNCHANGED <<primary, backup, plan, runs, ckpt, prevPrimary, saved,
                   raised, issued, success, inp>>

KeyOfDataProcessor ==
    /\ lastOp = "init"
    /\ out' = _get_thai_sort_key(inp)
    /\ lastOp' = "key_dp"
    /\ UNCHANGED <<primary, backup, plan, runs, ckpt, prevPrimary, saved,
                   raised, issued, success, inp>>

NextKey == KeyOfNameProcessor \/ KeyOfDataProcessor

SpecKey == InitKey /\ [][NextKey]_vars

------------------------------------------------------------------------------
(* CheckpointManager.save_checkpoint to a path without a file or over an    *)
(* existing file, the copy to .bak succeeding or raising (raised records    *)
(* that the copy raised), followed by load_checkpoint of the path           *)

InitBackup ==
    /\ primary \in {AbsentFile} \cup {ValidFile(s) : s \in CrashBatches}
    /\ backup = AbsentFile
    /\ plan = 1
    /\ runs = 0
    /\ ckpt = EmptyDict
    /\ out = << >>
    /\ prevPrimary = primary
    /\ saved = FALSE
    /\ raised = FALSE
    /\ issued = {}
    /\ success = TRUE
    /\ inp = << >>
    /\ lastOp = "init"

SaveOver(batch, copy_ok) ==
    /\ lastOp = "init"
    /\ \E sv \in {save_checkpoint(batch, primary, backup, copy_ok)} :
          /\ primary' = sv.primary
          /\ backup' = sv.backup
          /\ saved' = sv.ok
    /\ raised' = (primary.kind = "valid" /\ ~copy_ok)
    /\ out' = batch
    /\ prevPrimary' = primary
    /\ runs' = runs + 1
    /\ lastOp' = "save"
    /\ UNCHANGED <<plan, ckpt, issued, success, inp>>

Reload ==
    /\ lastOp = "save"
    /\ ckpt' = load_checkpoint(primary, backup).data
    /\ lastOp' = "reload"
    /\ UNCHANGED <<primary, backup, plan, runs, out, prevPrimary, saved,
                   raised, issued, success, inp>>

NextBackup ==
    \/ \E batch \in CrashBatches : \E copy_ok \in BOOLEAN :
          SaveOver(batch, copy_ok)
    \/ Reload

SpecBackup == InitBackup /\ [][NextBackup]_vars

------------------------------------------------------------------------------
(* Runs of DataProcessor.assign_exam_details that start without a           *)
(* checkpoint file and keep the room plan they started with.  The .bak      *)
(* file is not writable: no load reads it, the checkpoint file being        *)
(* readable after every save.                                               *)

SeatInputs == Inputs

InitSeat ==
    /\ primary = AbsentFile
    /\ backup = AbsentFile
    /\ plan \in Plans
    /\ runs = 0
    /\ ckpt = EmptyDict
    /\ out = << >>
    /\ prevPrimary = primary
    /\ saved = FALSE
    /\ raised = FALSE
    /\ issued = {}
    /\ success = TRUE
    /\ inp = << >>
    /\ lastOp = "init"

SeatRun(df) ==
    /\ runs < MaxSeatRuns
    /\ \E loaded \in {load_checkpoint(primary, backup).data} :
       \E frame \in {assign_exam_details(df, loaded, plan)} :
       \E sv \in {SaveToCheckpoint(frame, primary, backup, FALSE)} :
          /\ primary' = sv.primary
          /\ backup' = sv.backup
          /\ saved' = sv.ok
    /\ runs' = runs + 1
    /\ lastOp' = "run"
    /\ UNCHANGED <<plan, ckpt, out, prevPrimary, raised, issued, success, inp>>

NextSeat == \E df \in SeatInputs : SeatRun(df)

SpecSeat == InitSeat /\ [][NextSeat]_vars

------------------------------------------------------------------------------
(* Properties *)

FrameKeys(frame) == {PairKey(frame[i]) : i \in 1..Len(frame)}

Details(row) == <<row.exam_id, row.exam_room, row.exam_no>>

DetailsOf(frame, k) ==
    {Details(frame[i]) : i \in {j \in 1..Len(frame) : PairKey(frame[j]) = k}}

StoreKeys(f) == IF f.kind = "valid" THEN FrameKeys(f.rows) ELSE {}

\* the applicants the last run was called with
InputSet == {r \in Pool : DictKey(r) \in FrameKeys(out)}

Perms(S) ==
    {s \in [1..Cardinality(S) -> S] :
       \A i, j \in 1..Cardinality(S) : i # j => s[i] # s[j]}

\* C1 (Resumability): when a run that saved its checkpoint is followed by a
\* run on a superset of its records, every key of the first run has in the
\* second run's output the exam ID, room and seat number it had in the
\* first run's output.
C1_Resumability ==
    [][(/\ lastOp = "run" /\ saved
        /\ lastOp' = "run"
        /\ FrameKeys(out) \subseteq FrameKeys(out'))
       => \A k \in FrameKeys(out) : DetailsOf(out', k) = DetailsOf(out, k)]_vars

\* C2 (Store immutability): a key that is in the checkpoint file with an
\* exam ID, room and seat number is in the file with the same exam ID, room
\* and seat number after every later save.
C2_StoreImmutability ==
    [][\A k \in StoreKeys(primary) :
          /\ k \in StoreKeys(primary')
          /\ DetailsOf(primary'.rows, k) = DetailsOf(primary.rows, k)]_vars

\* C3 (Order independence): for the checkpoint content and the record set of
\* a run, every permutation of the input order yields the exam ID, room and
\* seat number the run produced, for every key, equal sort keys included.
C3_OrderIndependence ==
    lastOp = "run" =>
        \A q \in Perms(InputSet) :
            LET frame == assign_exam_details(q, ckpt, plan)
            IN \A k \in FrameKeys(out) : DetailsOf(frame, k) = DetailsOf(out, k)

\* no two not-yet-checkpointed records of one program have equal sort keys
NoTies(S, checkpoint_data) ==
    \A r1, r2 \in S :
        (/\ r1 # r2
         /\ r1.program = r2.program
         /\ DictKey(r1) \notin DOMAIN checkpoint_data
         /\ DictKey(r2) \notin DOMAIN checkpoint_data)
        => SortKey(r1) # SortKey(r2)

\* C3 (Order independence, amended): as C3_OrderIndependence, for record
\* sets in which no two not-yet-checkpointed records of one program have
\* equal (sort key of first name, sort key of last name).
C3_OrderIndependenceNoTies ==
    (lastOp = "run" /\ NoTies(InputSet, ckpt)) =>
        \A q \in Perms(InputSet) :
            LET frame == assign_exam_details(q, ckpt, plan)
            IN \A k \in FrameKeys(out) : DetailsOf(frame, k) = DetailsOf(out, k)

\* a run that numbered and seated two new records of one program with
\* different sort keys
C3_Witness ==
    /\ lastOp = "run"
    /\ NoTies(InputSet, ckpt)
    /\ \E i, j \in NewRows(out, ckpt) :
          /\ i < j
          /\ out[i].program = out[j].program
          /\ out[i].exam_id # out[j].exam_id
          /\ out[i].exam_room # EmptyStr
          /\ out[j].exam_room # EmptyStr

\* int(exam_id[len(prefix):]) of a generated exam ID
Suffix(program, exam_id) ==
    ParseInt(DropFirst(exam_id, Len(EXAM_ID_PREFIX[program])))

\* C4 (Sequence monotonicity): the suffix of every exam ID a run generates
\* is greater than the suffix of every exam ID an earlier run generated for
\* the program, and no suffix of a program is generated for two applicants.
C4_SequenceMonotonicity ==
    [][lastOp' = "run" =>
         /\ \A i \in NewRows(out', ckpt') :
               \A t \in issued :
                   t[1] = out'[i].program
                   => Suffix(t[1], t[2]) < Suffix(t[1], out'[i].exam_id)
         /\ \A t1, t2 \in issued' :
               (t1[1] = t2[1] /\ t1[2] = t2[2]) => t1[3] = t2[3]]_vars

RoomNames(p) ==
    UNION {{EXAM_ROOMS(p)[g][j][1] : j \in 1..Len(EXAM_ROOMS(p)[g])} :
             g \in DOMAIN EXAM_ROOMS(p)}

\* the largest capacity the plan gives a room name
ConfiguredCapacity(p, room) ==
    Max(UNION {{EXAM_ROOMS(p)[g][j][2] :
                  j \in {j \in 1..Len(EXAM_ROOMS(p)[g]) :
                           EXAM_ROOMS(p)[g][j][1] = room}} :
                 g \in DOMAIN EXAM_ROOMS(p)})

StoreRows(f) == IF f.kind = "valid" THEN f.rows ELSE << >>

\* C5 (Capacity bound): with the room plan unchanged, the number of entries
\* of the checkpoint file, over all programs, that carry a room name never
\* exceeds the capacity configured for the room.
C5_CapacityBound ==
    plan = 1 =>
        \A room \in RoomNames(plan) :
            Cardinality({i \in 1..Len(StoreRows(primary)) :
                           StoreRows(primary)[i].exam_room = room})
            <= ConfiguredCapacity(plan, room)

EntriesIn(f, program, room) ==
    {i \in 1..Len(StoreRows(f)) :
       /\ StoreRows(f)[i].program = program
       /\ StoreRows(f)[i].exam_room = room}

\* C5 (Capacity bound, amended): with the room plan unchanged, for every
\* program and every room of the program's plan the number of entries of
\* that program that carry the room's name never exceeds the capacity the
\* program's plan gives the room.
C5_CapacityBoundPerProgram ==
    plan = 1 =>
        \A g \in DOMAIN EXAM_ROOMS(plan) :
            \A j \in 1..Len(EXAM_ROOMS(plan)[g]) :
                Cardinality(EntriesIn(primary, g, EXAM_ROOMS(plan)[g][j][1]))
                <= EXAM_ROOMS(plan)[g][j][2]

\* two runs filled the first room of a program and went on to the next
C5_Witness ==
    /\ plan = 1
    /\ runs = 2
    /\ \E g \in DOMAIN EXAM_ROOMS(plan) :
          /\ Len(EXAM_ROOMS(plan)[g]) >= 2
          /\ \A j \in 1..2 :
                Cardinality(EntriesIn(primary, g, EXAM_ROOMS(plan)[g][j][1]))
                = EXAM_ROOMS(plan)[g][j][2]

\* the seats the plan of a program has left: the sum over its rooms of
\* capacity minus occupancy, where that is positive
RECURSIVE RemainingCapacity(_, _, _)
RemainingCapacity(checkpoint_data, program, program_rooms) ==
    IF program_rooms = << >> THEN 0
    ELSE LET left == program_rooms[1][2]
                     - _get_room_occupancy(checkpoint_data, program,
                                           program_rooms[1][1])
         IN (IF left > 0 THEN left ELSE 0)
            + RemainingCapacity(checkpoint_data, program,
                                SubSeq(program_rooms, 2, Len(program_rooms)))

\* C6 (Capacity overflow): when a run has more not-yet-checkpointed records
\* of a program than the remaining capacity c of the program's plan, the
\* first c of them in sorted order get a room and a seat number and the
\* others are left with empty room and seat number 0.
C6_CapacityOverflow ==
    lastOp = "run" =>
        \A g \in DOMAIN EXAM_ROOMS(plan) :
            LET new == {i \in NewRows(out, ckpt) : out[i].program = g}
                c == RemainingCapacity(ckpt, g, EXAM_ROOMS(plan)[g])
                rank(i) == Cardinality({j \in new : j <= i})
            IN Cardinality(new) > c =>
                  \A i \in new :
                      IF rank(i) <= c
                      THEN out[i].exam_room # EmptyStr /\ out[i].exam_no > 0
                      ELSE out[i].exam_room = EmptyStr /\ out[i].exam_no = 0

\* C7 (Checkpoint merge): saving a batch against an existing file yields a
\* file whose keys are the pairs (thaiID, program) of the old file and of
\* the batch; the keys of the batch carry the batch's values and the other
\* keys the values they had.
C7_CheckpointMerge ==
    (lastOp = "save" /\ prevPrimary.kind = "valid") =>
        /\ StoreKeys(primary) = StoreKeys(prevPrimary) \cup FrameKeys(out)
        /\ \A k \in FrameKeys(out) :
              DetailsOf(StoreRows(primary), k) = DetailsOf(out, k)
        /\ \A k \in StoreKeys(prevPrimary) \ FrameKeys(out) :
              DetailsOf(StoreRows(primary), k)
              = DetailsOf(StoreRows(prevPrimary), k)

\* C8 (Persistence of every run): after a run, whatever the file was before
\* it, the checkpoint file has a row for every key of the run's input and
\* for every key it had before the run.
C8_PersistenceOfEveryRun ==
    lastOp = "run" =>
        /\ FrameKeys(out) \subseteq StoreKeys(primary)
        /\ StoreKeys(prevPrimary) \subseteq StoreKeys(primary)


\* the mapping a readable file holds
MappingIn(f) ==
    IF f.kind = "valid" THEN ReadValidateProcess(f).data ELSE EmptyDict

C10_LoadIsTotal ==
    lastOp = "load" =>
        /\ ~raised
        /\ DOMAIN ckpt \subseteq
              {PairKey(r) : r \in SampleRows}
        /\ \A k \in DOMAIN ckpt :
              DOMAIN ckpt[k] = {"exam_id", "exam_room", "exam_no"}
        /\ primary.kind = "absent" => ckpt = EmptyDict

\* a load of two unparsable files that returned the empty mapping
C10_Witness ==
    /\ lastOp = "load"
    /\ primary.kind = "empty"
    /\ backup.kind = "badrows"
    /\ ~raised
    /\ ckpt = EmptyDict

ProgramsOf(data) == {data[i].program : i \in 1..Len(data)}

\* the records of data whose program is processed normally: it has an exam
\* ID prefix and a room plan
Processable(data, p) ==
    {i \in 1..Len(data) : /\ data[i].program \in DOMAIN EXAM_ID_PREFIX
                          /\ data[i].program \in DOMAIN EXAM_ROOMS(p)}

C12_MissingIdPrefixHandling ==
    (/\ lastOp = "app"
     /\ \E g \in ProgramsOf(inp) : g \notin DOMAIN EXAM_ID_PREFIX)
    => /\ \A t \in issued : t[1] \in DOMAIN EXAM_ID_PREFIX
       /\ \A k \in StoreKeys(primary) : k[2] \in DOMAIN EXAM_ID_PREFIX
       /\ \A i \in Processable(inp, plan) :
             \E j \in 1..Len(out) : /\ PairKey(out[j]) = DictKey(inp[i])
                                    /\ out[j].exam_id # EmptyStr
       /\ success = FALSE

\* C13 (Persist failure): when the save step of an application run fails,
\* the run returns failure and the frames it hands to the writers are the
\* frames the same run returns when the file can be written.
C13_PersistFailure ==
    (lastOp = "app" /\ ~saved /\ prevPrimary.kind = "empty")
    => /\ success = FALSE
       /\ out = AppLoop(inp, program_ids,
                        [primary |-> AbsentFile, backup |-> AbsentFile,
                         copy_ok |-> TRUE, frames |-> << >>, frame |-> << >>, saved |-> TRUE,
                         ckpt |-> EmptyDict, issued |-> {}],
                        FALSE, plan).frames

\* C14 (Crash safety of save): after a save over an existing file that was
\* interrupted at any step, a load returns a mapping that has every entry
\* of the file as it was before the save, with the value it had.
C14_CrashSafetyOfSave ==
    lastOp = "recover" =>
        \A k \in DOMAIN MappingIn(prevPrimary) :
            /\ k \in DOMAIN ckpt
            /\ ckpt[k] = MappingIn(prevPrimary)[k]

\* C15 (Backup before overwrite): after each successful save over an
\* existing checkpoint file, the .bak file holds exactly the content the
\* checkpoint file had before that save.
C15_BackupBeforeOverwrite ==
    (lastOp = "save" /\ saved /\ prevPrimary.kind # "absent") =>
        backup = prevPrimary

\* C16 (Key uniqueness in the store): after any sequence of saves, also of
\* batches that hold a key more than once, the checkpoint file has at most
\* one row per pair (thaiID, program).
C16_KeyUniquenessInStore ==
    (lastOp = "save" /\ primary.kind = "valid") =>
        \A i, j \in 1..Len(primary.rows) :
            i # j => PairKey(primary.rows[i]) # PairKey(primary.rows[j])

\* the file with the rows of program prog only
OwnEntries(f, prog) ==
    IF f.kind = "valid"
    THEN ValidFile(SelectSeq(f.rows, LAMBDA r : r.program = prog))
    ELSE f

\* the applicants of the last run in the order of its output
InputOfOut == AsSeq([i \in 1..Len(out) |->
                       CHOOSE r \in Pool : DictKey(r) = PairKey(out[i])])

\* C17 (Multi-program independence): a run whose input holds records of one
\* program only leaves the rows of every other program in the checkpoint
\* file as they were, and gives the records that are new the exam IDs, rooms
\* and seat numbers it gives them against the file's rows of that program
\* alone.
C17_MultiProgramIndependence ==
    (lastOp = "run" /\ \A i \in 1..Len(out) : out[i].program = out[1].program)
    =>
        /\ \A k \in StoreKeys(prevPrimary) :
              k[2] # out[1].program =>
                  /\ k \in StoreKeys(primary)
                  /\ DetailsOf(primary.rows, k) = DetailsOf(prevPrimary.rows, k)
        /\ LET own == load_checkpoint(OwnEntries(prevPrimary, out[1].program),
                                      backup).data
               alone == assign_exam_details(InputOfOut, own, plan)
           IN \A i \in NewRows(out, ckpt) :
                  DetailsOf(alone, PairKey(out[i])) = {Details(out[i])}

\* the highest number a checkpointed exam ID of the program has after the
\* program's prefix; 0 when no ID has the prefix followed by a number
HighestSuffix(prog) ==
    Max({0} \cup
        {n \in 1..(MaxRuns * MaxBatch) :
           \E k \in DOMAIN ckpt :
              /\ k[2] = prog
              /\ \E w \in 1..3 :
                    ckpt[k].exam_id
                    = EXAM_ID_PREFIX[prog] \o zfill(IntToStr(n), w)})

\* the rows of the last run's output that are new and of the program
NewOf(prog) == {i \in NewRows(out, ckpt) : out[i].program = prog}

PaddedId(prog, n) == EXAM_ID_PREFIX[prog] \o zfill(IntToStr(n), 3)

\* C18 (Exam ID generation): with h the highest checkpointed suffix of a
\* program and k records of it that are not in the checkpoint, the exam IDs
\* of these records are the prefix followed by h+1, ..., h+k padded with
\* zeros to width 3, and a record with the smaller sort key has the smaller
\* number.
C18_ExamIdGeneration ==
    lastOp = "run" =>
        \A prog \in DOMAIN EXAM_ID_PREFIX :
            LET h == HighestSuffix(prog)
                k == Cardinality(NewOf(prog))
            IN /\ {out[i].exam_id : i \in NewOf(prog)}
                  = {PaddedId(prog, h + n) : n \in 1..k}
               /\ \A i, j \in NewOf(prog) :
                     KeyLess(SortKey(InputOfOut[i]), SortKey(InputOfOut[j]))
                     => \E m, n \in 1..k :
                           /\ m < n
                           /\ out[i].exam_id = PaddedId(prog, h + m)
                           /\ out[j].exam_id = PaddedId(prog, h + n)

\* a run that continues a program's numbers after a checkpointed one and
\* gives two records of different sort keys the next two
C18_Witness ==
    /\ lastOp = "run"
    /\ HighestSuffix(ProgA) = 1
    /\ \E i, j \in NewOf(ProgA) :
          /\ KeyLess(SortKey(InputOfOut[i]), SortKey(InputOfOut[j]))
          /\ out[i].exam_id = PaddedId(ProgA, 2)
          /\ out[j].exam_id = PaddedId(ProgA, 3)

\* C19 (Collation key): the sort key of a name of fewer than 2 characters,
\* or whose first character is not one of the five leading vowels, is the
\* name; of any other name it is the second character, the first character
\* and the characters after the second; every name has a key, and the key
\* is as long as the name.
C19_CollationKey ==
    lastOp \in {"key", "key_dp"} =>
        /\ Len(out) = Len(inp)
        /\ IF Len(inp) < 2 \/ inp[1] \notin thai_leading_vowels
           THEN out = inp
           ELSE /\ out[1] = inp[2]
                /\ out[2] = inp[1]
                /\ \A i \in 3..Len(inp) : out[i] = inp[i]

\* the key of a three-character name that starts with a leading vowel, the
\* first two characters changing places
C19_Witness ==
    /\ lastOp = "key"
    /\ Len(inp) = 3
    /\ inp[1] \in thai_leading_vowels
    /\ out # inp

\* C20 (Room filling): the rooms of a program's plan are taken in listed
\* order; a room of capacity c whose highest checkpointed seat number is m
\* is passed over when c - m <= 0, and otherwise the next min(c - m,
\* records left) new records in sorted order get that room with the seat
\* numbers m+1, m+2, ...; the records left go on to the next room.
C20_RoomFilling ==
    lastOp = "run" =>
        \A g \in DOMAIN EXAM_ROOMS(plan) :
            LET program_rooms == EXAM_ROOMS(plan)[g]
                rank(i) == Cardinality({j \in NewOf(g) : j <= i})
            IN \A j \in 1..Len(program_rooms) :
                  LET c == program_rooms[j][2]
                      m == _get_room_occupancy(ckpt, g, program_rooms[j][1])
                      before == RemainingCapacity(ckpt, g,
                                    SubSeq(program_rooms, 1, j - 1))
                  IN \A i \in NewOf(g) :
                        (c - m > 0 /\ before < rank(i)
                         /\ rank(i) <= before + (c - m))
                        => /\ out[i].exam_room = program_rooms[j][1]
                           /\ out[i].exam_no = m + (rank(i) - before)

\* C21 (Output completeness): for every input frame and the checkpoint
\* loaded, the frame assign_exam_details returns has one row per input
\* row, whether its key is checkpointed, newly seated or left without a
\* room: no row is dropped and none is added.
C21_OutputCompleteness ==
    \A df \in Inputs :
        LET frame == assign_exam_details(df, ckpt, plan)
        IN /\ Len(frame) = Len(df)
           /\ \A r \in Pool :
                 Cardinality({i \in 1..Len(frame) : PairKey(frame[i]) = DictKey(r)})
                 = Cardinality({i \in 1..Len(df) : df[i] = r})

\* a run whose output has a row taken from the checkpoint and a row that is
\* new
C21_Witness ==
    /\ lastOp = "run"
    /\ \E i, j \in 1..Len(out) :
          /\ PairKey(out[i]) \in DOMAIN ckpt
          /\ PairKey(out[j]) \notin DOMAIN ckpt

\* C22 (Best-effort backup): a save over an existing checkpoint file whose
\* copy to .bak fails still returns True and writes the file a save with a
\* successful copy writes: the old rows whose keys the batch does not have
\* and the batch, every key of the batch with the batch's values.
C22_BestEffortBackup ==
    (lastOp = "save" /\ raised) =>
        /\ saved
        /\ primary = save_checkpoint(out, prevPrimary, backup, TRUE).primary
        /\ StoreKeys(primary) = StoreKeys(prevPrimary) \cup FrameKeys(out)
        /\ \A k \in FrameKeys(out) :
              DetailsOf(primary.rows, k) = DetailsOf(out, k)

\* a save whose copy failed, that kept a row of the old file and left no
\* .bak file
C22_Witness ==
    /\ lastOp = "save"
    /\ raised
    /\ saved
    /\ backup = AbsentFile
    /\ Len(primary.rows) > Len(out)

\* C23 (Save/load round trip): a batch saved to a path that has no file and
\* loaded from it comes back as a mapping with the batch's keys, each with
\* the exam ID, room and seat number it has in the batch, rows with empty
\* room and seat number 0 included.
C23_SaveLoadRoundTrip ==
    (lastOp = "reload" /\ prevPrimary.kind = "absent") =>
        /\ DOMAIN ckpt = FrameKeys(out)
        /\ \A k \in DOMAIN ckpt :
              DetailsOf(out, k)
              = {<<ckpt[k].exam_id, ckpt[k].exam_room, ckpt[k].exam_no>>}

\* C24 (Global exam ID uniqueness): after any sequence of runs over the
\* configured programs, no two rows of the checkpoint file with different
\* keys have the same exam ID.
C24_GlobalExamIdUniqueness ==
    primary.kind = "valid" =>
        \A i, j \in 1..Len(primary.rows) :
            PairKey(primary.rows[i]) # PairKey(primary.rows[j])
            => primary.rows[i].exam_id # primary.rows[j].exam_id

\* two runs left rows of both programs in the file, two of them of one
\* program
C24_Witness ==
    /\ runs = 2
    /\ primary.kind = "valid"
    /\ \E i, j, k \in 1..Len(primary.rows) :
          /\ i # j
          /\ primary.rows[i].program = ProgA
          /\ primary.rows[j].program = ProgA
          /\ primary.rows[k].program = ProgB
    /\ prevPrimary.kind = "valid"
    /\ Len(primary.rows) > Len(prevPrimary.rows)

\* C25 (Seat uniqueness): after any sequence of runs that starts without a
\* checkpoint file, no two rows of the file with different keys and the
\* same program have the same non-empty room and the same seat number.
C25_SeatUniqueness ==
    primary.kind = "valid" =>
        \A i, j \in 1..Len(primary.rows) :
            (/\ PairKey(primary.rows[i]) # PairKey(primary.rows[j])
             /\ primary.rows[i].program = primary.rows[j].program
             /\ primary.rows[i].exam_room # EmptyStr
             /\ primary.rows[i].exam_room = primary.rows[j].exam_room)
            => primary.rows[i].exam_no # primary.rows[j].exam_no

\* the seat numbers the rows of a program have in a room
SeatsIn(f, program, room) ==
    {StoreRows(f)[i].exam_no : i \in EntriesIn(f, program, room)}

\* C26 (Seat contiguity): after any sequence of runs that starts without a
\* checkpoint file and keeps its room plan, the seat numbers a program's
\* rows have in a room of its plan are 1, ..., n for an n that is not
\* greater than the room's capacity; the seat numbers it has under any
\* room name in the file are 1, ..., n as well.
C26_SeatContiguity ==
    \A g \in DOMAIN EXAM_ROOMS(plan) :
        /\ \A j \in 1..Len(EXAM_ROOMS(plan)[g]) :
              \E n \in 0..EXAM_ROOMS(plan)[g][j][2] :
                  SeatsIn(primary, g, EXAM_ROOMS(plan)[g][j][1]) = 1..n
        /\ \A i \in 1..Len(StoreRows(primary)) :
              (/\ StoreRows(primary)[i].program = g
               /\ StoreRows(primary)[i].exam_room # EmptyStr)
              => \E n \in 1..Len(StoreRows(primary)) :
                    SeatsIn(primary, g, StoreRows(primary)[i].exam_room) = 1..n

\* two runs gave a program the seats 1 and 2 of a room of two seats
C26_Witness ==
    /\ lastOp = "run"
    /\ runs >= 2
    /\ plan = 2
    /\ SeatsIn(primary, ProgA, Room721) = {1, 2}

\* C27 (Fill order across runs): after any sequence of runs that starts
\* without a checkpoint file and keeps its room plan, a room of a program's
\* plan has a row of the program only if the program fills every room
\* listed before it to its capacity.
C27_FillOrderAcrossRuns ==
    \A g \in DOMAIN EXAM_ROOMS(plan) :
        \A j \in 1..Len(EXAM_ROOMS(plan)[g]) :
            EntriesIn(primary, g, EXAM_ROOMS(plan)[g][j][1]) # {}
            => \A i \in 1..(j - 1) :
                  Cardinality(EntriesIn(primary, g, EXAM_ROOMS(plan)[g][i][1]))
                  = EXAM_ROOMS(plan)[g][i][2]

\* the second room of a plan got a row in a run after the one that filled
\* the first
C27_Witness ==
    /\ lastOp = "run"
    /\ runs >= 2
    /\ Len(EXAM_ROOMS(plan)[ProgA]) = 2
    /\ EntriesIn(primary, ProgA, EXAM_ROOMS(plan)[ProgA][2][1]) # {}
    /\ EntriesIn(primary, ProgA, EXAM_ROOMS(plan)[ProgA][1][1]) # {}

\* index of a room in the plan of a program, 0 for a room the plan lacks
RoomIndex(program, room) ==
    IF \E j \in 1..Len(EXAM_ROOMS(plan)[program]) :
          EXAM_ROOMS(plan)[program][j][1] = room
    THEN CHOOSE j \in 1..Len(EXAM_ROOMS(plan)[program]) :
            EXAM_ROOMS(plan)[program][j][1] = room
    ELSE 0

\* the number after the program's prefix in the exam ID of a row
SuffixOf(row) ==
    ParseInt(DropFirst(row.exam_id, Len(EXAM_ID_PREFIX[row.program])))

\* row a has its room earlier in the plan than row b, or the same room and
\* a smaller seat number
Precedes(a, b) ==
    \/ RoomIndex(a.program, a.exam_room) < RoomIndex(b.program, b.exam_room)
    \/ /\ a.exam_room = b.exam_room
       /\ a.exam_no < b.exam_no

\* C28 (Exam ID and seat order agree): after any sequence of runs that
\* starts without a checkpoint file and keeps its room plan, of two rows of
\* a program that have a room the one with the smaller exam ID number is
\* the one whose room comes first in the plan or, in the same room, whose
\* seat number is smaller.
C28_ExamIdAndSeatOrderAgree ==
    \A g \in DOMAIN EXAM_ROOMS(plan) :
        \A i, j \in 1..Len(StoreRows(primary)) :
            LET a == StoreRows(primary)[i]
                b == StoreRows(primary)[j]
            IN (/\ a.program = g /\ b.program = g
                /\ a.exam_room # EmptyStr
                /\ b.exam_room # EmptyStr)
               => (SuffixOf(a) < SuffixOf(b) <=> Precedes(a, b))

\* C29 (Unassigned entries are final): a record a run leaves without a room
\* is written to the checkpoint file with its exam ID, empty room and seat
\* number 0; every later run leaves that row as it is and returns the
\* record with that exam ID, seat number 0 and no room of a plan, whatever
\* capacity or plan there is by then.
C29_UnassignedEntriesAreFinal ==
    [][/\ lastOp' = "run" =>
            \A i \in 1..Len(out') :
                out'[i].exam_room = EmptyStr
                => /\ PairKey(out'[i]) \in StoreKeys(primary')
                   /\ DetailsOf(StoreRows(primary'), PairKey(out'[i]))
                      = {<<out'[i].exam_id, EmptyStr, 0>>}
       /\ \A r \in {StoreRows(primary)[i] : i \in 1..Len(StoreRows(primary))} :
             (r.exam_room = EmptyStr /\ r.exam_no = 0)
             => /\ DetailsOf(StoreRows(primary'), PairKey(r)) = {Details(r)}
                /\ lastOp' = "run" =>
                      \A i \in 1..Len(out') :
                          PairKey(out'[i]) = PairKey(r)
                          => /\ out'[i].exam_id = r.exam_id
                             /\ out'[i].exam_no = 0
                             /\ out'[i].exam_room \notin {Room721, RoomHall}
      ]_vars

\* C30 (Re-run is a fixpoint): a run on the records of the run before it,
\* against the checkpoint file that run saved, returns for every record the
\* exam ID, room and seat number the run before returned, and leaves the
\* keys of the file and the exam ID, room and seat number of every key as
\* they were.
C30_RerunIsFixpoint ==
    [][(/\ lastOp = "run" /\ saved
        /\ lastOp' = "run"
        /\ FrameKeys(out') = FrameKeys(out))
       => /\ \A k \in FrameKeys(out) : DetailsOf(out', k) = DetailsOf(out, k)
          /\ StoreKeys(primary') = StoreKeys(primary)
          /\ \A k \in StoreKeys(primary) :
                DetailsOf(StoreRows(primary'), k)
                = DetailsOf(StoreRows(primary), k)]_vars

====
